---- MODULE Spec2Model ----
(***************************************************************************)
(* instagrouper: the argument loop of main.rs, the grouping engine (lib.rs, *)
(* group), the assembly of one group (lib.rs, merge and thumbnail) and the  *)
(* worker fan-out / fan-in of main.rs.                                      *)
(*                                                                         *)
(* Durations are an integer number of tenths of a second (the program       *)
(* holds them as integer nanoseconds in std::time::Duration).               *)
(* A descriptor (MediaInfo) is a record                                     *)
(*   [id, media, duration, resolution, name]                                *)
(* where id is the position of its path on the command line, resolution is  *)
(* an Option: << >> is None and <<r>> is Some(r), and name is the file name *)
(* as a sequence of characters.                                             *)
(***************************************************************************)
EXTENDS Integers, Sequences, FiniteSets, TLC

VARIABLES
    pc,             \* where main() is
    args,           \* main(): the arguments of the command line
    arg_idx,        \* main(): how many of them args.next() has returned
    out_dir,        \* main(): the output directory
    paths,          \* the command-line paths, each with what identify() returns for it
    media_info,     \* group(): the descriptors, sorted
    next_mi,        \* group(): position of the `for mi in media_info` loop
    groups,         \* group(): Vec<Vec<MediaInfo>>
    max_divergence, \* group(): the reported divergence, << >> while not computed
    num_cpus,       \* main(): available_parallelism, 0 before it is read
    chunk_size,     \* main(): groups.len().div_ceil(num_cpus)
    chunks,         \* main(): groups.chunks(chunk_size), chunk_idx + 1 |-> chunk
    in_chunk_idx,   \* worker chunk_idx + 1 |-> position of its loop over the chunk
    panicked,       \* worker chunk_idx + 1 |-> TRUE once an unwrap() panicked in it
    local_results,  \* worker chunk_idx + 1 |-> its Vec<Attachment>
    uuids,          \* the number of identifiers Uuid::now_v7() has handed out
    merged,         \* what the calls of merge() did: [by, op, inputs, kind]
    out_files,      \* the files written under out_dir: [path, by]
    job,            \* worker chunk_idx + 1 |-> << >>, or <<its thumbnail() call in progress>>
    tmp_files,      \* the play overlays there are in temp_dir()
    results,        \* main(): the collected Vec<Attachment>
    stdout          \* << >>, or <<the list printed as JSON>>

ginfo == <<paths, media_info, next_mi, groups, max_divergence>>
gvars == <<pc, ginfo>>
wvars == <<num_cpus, chunk_size, chunks, in_chunk_idx, panicked, local_results,
           uuids, merged, out_files, job, tmp_files, results, stdout>>
avars == <<args, arg_idx, out_dir>>
vars == <<gvars, wvars, avars>>

----------------------------------------------------------------------------
(* Bounds of the model *)

\* most paths on the command line
MaxLen == 3

\* most hardware threads available_parallelism() reports
MaxCpus == 2

\* durations the probed files may have, in tenths of a second
Durations == {0, 1, 7, 8}

----------------------------------------------------------------------------
(* Data model *)

\* max_delta = Duration::from_secs_f64(0.7), in tenths of a second
MaxDelta == 7

MediaTypes == {"Audio", "Video", "Image"}

Res(w, h) == [width |-> w, height |-> h]

\* the resolutions the probed files may have
Resolutions == {Res(720, 400), Res(1200, 90)}

None == << >>
Some(x) == <<x>>
IsSome(o) == o # None
Unwrap(o) == o[1]

is_audio(mi) == mi.media = "Audio"
is_video(mi) == mi.media = "Video"
is_image(mi) == mi.media = "Image"

\* identify(): Video and Image carry Some(resolution), Audio carries None
Shapes(durs, names) ==
    [media : {"Audio"}, duration : durs, resolution : {None}, name : names]
    \cup [media : {"Video", "Image"}, duration : durs,
          resolution : {Some(r) : r \in Resolutions}, name : names]

MkInfo(i, s) ==
    [id |-> i, media |-> s.media, duration |-> s.duration,
     resolution |-> s.resolution, name |-> s.name]

abs_diff(a, b) == IF a >= b THEN a - b ELSE b - a

Digit == <<"0", "1", "2", "3", "4", "5", "6", "7", "8", "9">>

\* the decimal digits of a number
RECURSIVE Decimal(_)
Decimal(n) ==
    IF n < 10 THEN <<Digit[n + 1]>>
    ELSE Decimal(n \div 10) \o <<Digit[(n % 10) + 1]>>

\* the path of an input: every input is in a directory of its own
SrcPath(mi) == <<"in">> \o Decimal(mi.id) \o <<"/">> \o mi.name

----------------------------------------------------------------------------
(* group(): the sort *)

\* a mutant: the new element goes before the elements of equal duration
InsertUnstable(s, mi) ==
    LET k == Cardinality({j \in 1..Len(s) : s[j].duration > mi.duration})
    IN  SubSeq(s, 1, k) \o <<mi>> \o SubSeq(s, k + 1, Len(s))

\* one insertion of the stable sort by Reverse(duration): mi goes after every
\* element whose duration is greater than or equal to its own
InsertSorted(s, mi) ==
    LET k == Cardinality({j \in 1..Len(s) : s[j].duration >= mi.duration})
    IN  SubSeq(s, 1, k) \o <<mi>> \o SubSeq(s, k + 1, Len(s))

RECURSIVE SortFrom(_, _, _)
SortFrom(s, acc, j) ==
    IF j > Len(s) THEN acc ELSE SortFrom(s, InsertSorted(acc, s[j]), j + 1)

\* media_info.sort_by_key(|mi| Reverse(mi.duration))
sort_by_key(s) == SortFrom(s, << >>, 1)

----------------------------------------------------------------------------
(* group(): the search for the best match of one descriptor *)

\* a mutant: the Audio arm tests for an image, as the Image arm does
AlreadyHasCopied(mi, group) ==
    \E j \in 1..Len(group) :
        CASE mi.media = "Audio" -> is_image(group[j])
          [] mi.media = "Image" -> is_image(group[j])
          [] mi.media = "Video" -> group[j].resolution = mi.resolution

\* a mutant: a Video collides only with the Video members of its resolution
AlreadyHasVideoOnly(mi, group) ==
    \E j \in 1..Len(group) :
        CASE mi.media = "Audio" -> is_audio(group[j])
          [] mi.media = "Image" -> is_image(group[j])
          [] mi.media = "Video" ->
                is_video(group[j]) /\ group[j].resolution = mi.resolution

\* group.iter().any(|other| match mi.media { ... })
already_has_resolution(mi, group) ==
    \E j \in 1..Len(group) :
        CASE mi.media = "Audio" -> is_audio(group[j])
          [] mi.media = "Image" -> is_image(group[j])
          [] mi.media = "Video" -> group[j].resolution = mi.resolution

\* a mutant: an image takes every matching group in turn, so the last one wins
ImageMatchLast(mi, group, idx, best) ==
    IF \E j \in 1..Len(group) : group[j].resolution = mi.resolution
    THEN Some(<<idx, 0>>)
    ELSE best

\* the `if mi.is_image()` branch: the first group with a member of the same
\* resolution, with a zero delta
ImageMatch(mi, group, idx, best) ==
    IF best = None /\ \E j \in 1..Len(group) : group[j].resolution = mi.resolution
    THEN Some(<<idx, 0>>)
    ELSE best

\* a mutant: the delta is taken against the most recent member
DeltaLast(mi, group) == abs_diff(mi.duration, group[Len(group)].duration)

\* mi.duration.abs_diff(group[0].duration)
Delta(mi, group) == abs_diff(mi.duration, group[1].duration)

\* a mutant: a later group of equal delta replaces the earlier one
TakeClosestLast(idx, delta, best) ==
    IF delta <= MaxDelta
    THEN IF best = None THEN Some(<<idx, delta>>)
         ELSE IF delta <= Unwrap(best)[2] THEN Some(<<idx, delta>>) ELSE best
    ELSE best

\* `if delta <= max_delta { match best_match { ... } }`
TakeClosest(idx, delta, best) ==
    IF delta <= MaxDelta
    THEN IF best = None THEN Some(<<idx, delta>>)
         ELSE IF delta < Unwrap(best)[2] THEN Some(<<idx, delta>>) ELSE best
    ELSE best

\* the body of `for (idx, group) in groups.iter().enumerate()`
Visit(mi, group, idx, best) ==
    IF already_has_resolution(mi, group) THEN best
    ELSE IF is_image(mi) THEN ImageMatch(mi, group, idx, best)
    ELSE TakeClosest(idx, Delta(mi, group), best)

RECURSIVE BestMatchFrom(_, _, _, _)
BestMatchFrom(mi, gs, idx, best) ==
    IF idx > Len(gs) THEN best
    ELSE BestMatchFrom(mi, gs, idx + 1, Visit(mi, gs[idx], idx, best))

\* best_match after the loop over the groups: None or Some(<<idx, delta>>)
best_match(mi, gs) == BestMatchFrom(mi, gs, 1, None)

\* a mutant: the member replaces the group it joins
PushOver(gs, idx, mi) == [gs EXCEPT ![idx] = <<mi>>]

\* a mutant: the member is put in front of the group it joins
PushFront(gs, idx, mi) == [gs EXCEPT ![idx] = <<mi>> \o @]

\* groups[idx].push(mi)
PushMember(gs, idx, mi) == [gs EXCEPT ![idx] = Append(@, mi)]

\* groups.push(vec![mi])
PushGroup(gs, mi) == Append(gs, <<mi>>)

\* the placement of one descriptor
Placed(gs, mi) ==
    LET bm == best_match(mi, gs)
    IN  IF IsSome(bm) THEN PushMember(gs, Unwrap(bm)[1], mi) ELSE PushGroup(gs, mi)

----------------------------------------------------------------------------
(* group(): the divergence report *)

Underflow == 0 - 1

NonImages(g) == SelectSeq(g, LAMBDA mi : ~is_image(mi))

\* a mutant: the images are not filtered out
GroupDivergenceAll(g) ==
    IF Len(g) >= 2
    THEN IF g[1].duration >= g[Len(g)].duration
         THEN g[1].duration - g[Len(g)].duration
         ELSE Underflow
    ELSE 0

\* the closure of the map: first and last of the non-image members; `first`
\* is consumed by next(), so `last` is there only with two or more of them.
\* Duration's `-` panics on underflow: Underflow stands for the panic.
GroupDivergence(g) ==
    LET c == NonImages(g)
    IN  IF Len(c) >= 2
        THEN IF c[1].duration >= c[Len(c)].duration
             THEN c[1].duration - c[Len(c)].duration
             ELSE Underflow
        ELSE 0

Max(S) == CHOOSE x \in S : \A y \in S : y <= x

----------------------------------------------------------------------------
(* group(): the actions *)

\* the command line holds 1..MaxLen paths, each identified as one of the shapes
Inputs(shapes) ==
    \E n \in 1..MaxLen : \E f \in [1..n -> shapes] :
        paths = [i \in 1..n |-> MkInfo(i, f[i])]

\* the name of every file in the grouping specification
PlainName == <<"c">>

\* file names with two underscores and with none
FileNames == {<<"v", "_", "1", "_", "a">>, <<"c">>}

\* the durations of the assembly specification
MainDurations == {0}

WorkersIdle ==
    /\ num_cpus = 0
    /\ chunk_size = 0
    /\ chunks = << >>
    /\ in_chunk_idx = << >>
    /\ panicked = << >>
    /\ local_results = << >>
    /\ uuids = 0
    /\ merged = {}
    /\ out_files = {}
    /\ job = << >>
    /\ tmp_files = {}
    /\ results = << >>
    /\ stdout = None

\* the state in which main calls group(): the arguments, which were the paths,
\* have been read
GroupStart ==
    /\ pc = "identify"
    /\ args = [i \in 1..Len(paths) |-> SrcPath(paths[i])]
    /\ arg_idx = Len(paths)
    /\ out_dir = <<".">>
    /\ media_info = << >>
    /\ next_mi = 1
    /\ groups = << >>
    /\ max_divergence = None

GroupInit ==
    /\ Inputs(Shapes(Durations, {PlainName}))
    /\ GroupStart
    /\ WorkersIdle

MainInit ==
    /\ Inputs(Shapes(MainDurations, {PlainName}))
    /\ GroupStart
    /\ WorkersIdle

\* lib.rs 84-98: every path is identified, the descriptors are sorted. A probe
\* that fails makes group() return the error (lib.rs 86) and main panic in the
\* unwrap() of main.rs 65.
Identify ==
    /\ pc = "identify"
    /\ \E probed \in BOOLEAN :
           IF probed
           THEN /\ media_info' = sort_by_key(paths)
                /\ pc' = "place"
           ELSE /\ pc' = "panicked"
                /\ UNCHANGED media_info
    /\ UNCHANGED <<paths, next_mi, groups, max_divergence>>
    /\ UNCHANGED wvars
    /\ UNCHANGED avars

\* lib.rs 100-146: one iteration of `for mi in media_info`
Place ==
    /\ pc = "place"
    /\ next_mi <= Len(media_info)
    /\ groups' = Placed(groups, media_info[next_mi])
    /\ next_mi' = next_mi + 1
    /\ UNCHANGED <<pc, paths, media_info, max_divergence>>
    /\ UNCHANGED wvars
    /\ UNCHANGED avars

\* lib.rs 148-168: the divergence is reported and the groups are returned
Report ==
    /\ pc = "place"
    /\ next_mi > Len(media_info)
    /\ LET ds == {GroupDivergence(groups[k]) : k \in 1..Len(groups)}
       IN  IF Underflow \in ds
           THEN /\ pc' = "panicked"
                /\ UNCHANGED max_divergence
           ELSE /\ pc' = "grouped"
                /\ max_divergence' = IF ds = {} THEN None ELSE Some(Max(ds))
    /\ UNCHANGED <<paths, media_info, next_mi, groups>>
    /\ UNCHANGED wvars
    /\ UNCHANGED avars

GroupNext == Identify \/ Place \/ Report

Spec == GroupInit /\ [][GroupNext]_vars

----------------------------------------------------------------------------
(* The grouping engine: the claims *)

\* the descriptor the next placement step takes
NextMi == media_info[next_mi]

\* a placement step is about to run
Placing == pc = "place" /\ next_mi <= Len(media_info)

\* the position of a descriptor in the processing order
Pos(id) == CHOOSE j \in 1..Len(media_info) : media_info[j].id = id

\* the (group, member) positions that hold the descriptor of path id
Occurrences(id) ==
    {gj \in UNION {{<<g, j>> : j \in 1..Len(groups[g])} : g \in 1..Len(groups)} :
        groups[gj[1]][gj[2]].id = id}

PlacedIds == {media_info[j].id : j \in 1..(next_mi - 1)}

\* C1: the groups are a partition of the descriptors placed so far: every
\* placed descriptor is in exactly one position of exactly one group, no other
\* descriptor is in any group, every member is an unchanged input descriptor,
\* every group is non-empty, and once the loop has ended every input descriptor
\* is placed.
C1_Partition ==
    /\ \A g \in 1..Len(groups) : Len(groups[g]) >= 1
    /\ \A g \in 1..Len(groups) : \A j \in 1..Len(groups[g]) :
           /\ groups[g][j].id \in 1..Len(paths)
           /\ groups[g][j] = paths[groups[g][j].id]
    /\ \A id \in 1..Len(paths) :
           Cardinality(Occurrences(id)) = IF id \in PlacedIds THEN 1 ELSE 0
    /\ pc = "grouped" => PlacedIds = 1..Len(paths)

\* the loop has ended with a group of several members beside another group
C1_Witness ==
    /\ pc = "grouped"
    /\ Len(groups) >= 2
    /\ \E g \in 1..Len(groups) : Len(groups[g]) >= 2

\* two members of one group collide
Collide(a, b) ==
    \/ is_audio(a) /\ is_audio(b)
    \/ is_image(a) /\ is_image(b)
    \/ is_video(a) /\ is_video(b) /\ a.resolution = b.resolution

\* C2: in every state of the placement loop no group holds two Audio members,
\* two Image members or two Video members of equal resolution.
C2_Compatible ==
    \A g \in 1..Len(groups) : \A j, k \in 1..Len(groups[g]) :
        j # k => ~Collide(groups[g][j], groups[g][k])

\* two Video descriptors of equal resolution and equal duration, and two Audio
\* descriptors of equal duration, have ended in different groups
C2_Witness ==
    /\ pc = "grouped"
    /\ \E g, h \in 1..Len(groups) :
           /\ g # h
           /\ \E j \in 1..Len(groups[g]) : \E k \in 1..Len(groups[h]) :
                  /\ Collide(groups[g][j], groups[h][k])
                  /\ groups[g][j].duration = groups[h][k].duration

\* C3: every Audio or Video member that was appended to an existing group is
\* within 0.7 s of that group's first member.
C3_Threshold ==
    \A g \in 1..Len(groups) : \A j \in 2..Len(groups[g]) :
        ~is_image(groups[g][j]) =>
            abs_diff(groups[g][j].duration, groups[g][1].duration) <= MaxDelta

\* an Audio or Video member was appended at a delta of exactly 0.7 s, and
\* another one, 0.8 s away from a group it does not collide with, was not
C3_Witness ==
    /\ pc = "grouped"
    /\ \E g \in 1..Len(groups) : \E j \in 2..Len(groups[g]) :
           /\ ~is_image(groups[g][j])
           /\ abs_diff(groups[g][j].duration, groups[g][1].duration) = MaxDelta
    /\ \E g, h \in 1..Len(groups) :
           /\ g < h
           /\ ~is_image(groups[h][1])
           /\ \A j \in 1..Len(groups[g]) :
                  /\ ~Collide(groups[g][j], groups[h][1])
                  /\ groups[g][j].resolution # groups[h][1].resolution
           /\ abs_diff(groups[g][1].duration, groups[h][1].duration) = MaxDelta + 1

\* C5: the descriptors are processed in non-increasing order of duration, those
\* of equal duration in the order of the input; the members of a group are in
\* processing order and the groups are in the processing order of their first
\* members.
C5_Order ==
    pc \notin {"identify", "panicked"} =>
        /\ Len(media_info) = Len(paths)
        /\ \A j \in 1..Len(media_info) :
               /\ media_info[j].id \in 1..Len(paths)
               /\ media_info[j] = paths[media_info[j].id]
        /\ \A j, k \in 1..Len(media_info) :
               j < k =>
                   /\ media_info[j].duration >= media_info[k].duration
                   /\ media_info[j].duration = media_info[k].duration
                          => media_info[j].id < media_info[k].id
        /\ \A g \in 1..Len(groups) : \A j, k \in 1..Len(groups[g]) :
               j < k => Pos(groups[g][j].id) < Pos(groups[g][k].id)
        /\ \A g, h \in 1..Len(groups) :
               g < h => Pos(groups[g][1].id) < Pos(groups[h][1].id)

\* the sort moved a descriptor before an earlier input and kept two
\* descriptors of equal duration, in different groups, in their input order
C5_Witness ==
    /\ pc = "grouped"
    /\ \E a, b \in 1..Len(paths) : a < b /\ paths[a].duration < paths[b].duration
    /\ \E g, h \in 1..Len(groups) :
           /\ g < h
           /\ groups[g][1].duration = groups[h][1].duration
           /\ groups[g][1].media = groups[h][1].media

\* the group passes the gate of lib.rs 106-114 for the descriptor
EligibleFor(mi, g) ==
    \A j \in 1..Len(g) :
        /\ is_audio(mi) => ~is_audio(g[j])
        /\ is_image(mi) => ~is_image(g[j])
        /\ is_video(mi) => g[j].resolution # mi.resolution

AnchorDelta(mi, g) == abs_diff(mi.duration, g[1].duration)

\* the eligible groups within the threshold of an Audio or Video descriptor
Candidates(mi) ==
    {g \in 1..Len(groups) :
        EligibleFor(mi, groups[g]) /\ AnchorDelta(mi, groups[g]) <= MaxDelta}

\* the earliest of the candidates of smallest delta
Closest(mi) ==
    CHOOSE g \in Candidates(mi) :
        \A h \in Candidates(mi) :
            \/ AnchorDelta(mi, groups[g]) < AnchorDelta(mi, groups[h])
            \/ AnchorDelta(mi, groups[g]) = AnchorDelta(mi, groups[h]) /\ g <= h

\* C6: an Audio or Video descriptor is appended to the earliest of the
\* eligible groups of smallest delta within 0.7 s, and starts a new group at
\* the end of the list if and only if there is no eligible group within 0.7 s.
C6_Closest ==
    [][(Placing /\ ~is_image(NextMi)) =>
          IF Candidates(NextMi) = {}
          THEN groups' = Append(groups, <<NextMi>>)
          ELSE groups' = [groups EXCEPT ![Closest(NextMi)] = Append(@, NextMi)]]_vars

\* an Audio or Video member joined a group although a later group, created
\* before it, was eligible at the same delta; and another one joined a later
\* group that was closer than an earlier eligible one
C6_Witness ==
    /\ pc = "grouped"
    /\ \E g, h \in 1..Len(groups) :
           /\ g < h
           /\ Len(groups[g]) >= 2
           /\ LET m == groups[g][Len(groups[g])]
              IN  /\ ~is_image(m)
                  /\ Pos(groups[h][1].id) < Pos(m.id)
                  /\ EligibleFor(m, groups[h])
                  /\ AnchorDelta(m, groups[h]) = AnchorDelta(m, groups[g])

\* an Audio or Video member joined a later group that was closer than an
\* earlier eligible group within the threshold
C6_WitnessCloser ==
    /\ pc = "grouped"
    /\ \E g, h \in 1..Len(groups) :
           /\ g < h
           /\ Len(groups[h]) >= 2
           /\ LET m == groups[h][Len(groups[h])]
              IN  /\ ~is_image(m)
                  /\ EligibleFor(m, groups[g])
                  /\ AnchorDelta(m, groups[g]) <= MaxDelta
                  /\ AnchorDelta(m, groups[h]) < AnchorDelta(m, groups[g])

\* the groups an Image descriptor may join
ImageCandidates(mi) ==
    {g \in 1..Len(groups) :
        /\ \A j \in 1..Len(groups[g]) : ~is_image(groups[g][j])
        /\ \E j \in 1..Len(groups[g]) : groups[g][j].resolution = mi.resolution}

Min(S) == CHOOSE x \in S : \A y \in S : x <= y

\* C7: an Image descriptor is appended to the first group, in creation order,
\* that holds no Image and holds a member of its resolution, whatever the
\* durations; it starts a new group if there is no such group.
C7_Image ==
    [][(Placing /\ is_image(NextMi)) =>
          IF ImageCandidates(NextMi) = {}
          THEN groups' = Append(groups, <<NextMi>>)
          ELSE groups' = [groups EXCEPT ![Min(ImageCandidates(NextMi))] =
                              Append(@, NextMi)]]_vars

\* an Image joined a group whose first member is more than 0.7 s away although
\* a later group held a member of its resolution and no Image
C7_Witness ==
    /\ pc = "grouped"
    /\ \E g, h \in 1..Len(groups) :
           /\ g < h
           /\ Len(groups[g]) >= 2
           /\ LET m == groups[g][Len(groups[g])]
              IN  /\ is_image(m)
                  /\ AnchorDelta(m, groups[g]) > MaxDelta
                  /\ \A j \in 1..Len(groups[h]) : ~is_image(groups[h][j])
                  /\ \E j \in 1..Len(groups[h]) : groups[h][j].resolution = m.resolution

\* C15: the first member of a group is the descriptor that created it, no
\* placement changes the first member of an existing group, and the duration
\* of the first member is at least that of every member of the group.
C15_Anchor ==
    [][Placing =>
          /\ \A g \in 1..Len(groups) :
                 /\ g <= Len(groups')
                 /\ groups'[g][1] = groups[g][1]
          /\ Len(groups') > Len(groups) => groups'[Len(groups')] = <<NextMi>>
          /\ \A g \in 1..Len(groups') : \A j \in 1..Len(groups'[g]) :
                 groups'[g][1].duration >= groups'[g][j].duration]_vars

\* a group holds, behind its first member, a shorter Audio or Video member and
\* an Image
C15_Witness ==
    /\ pc = "grouped"
    /\ \E g \in 1..Len(groups) :
           /\ \E j \in 2..Len(groups[g]) :
                  /\ ~is_image(groups[g][j])
                  /\ groups[g][j].duration < groups[g][1].duration
           /\ \E j \in 2..Len(groups[g]) : is_image(groups[g][j])

\* the group holds a member of the resolution of the descriptor
HasResolutionOf(mi, g) == \E j \in 1..Len(g) : g[j].resolution = mi.resolution

\* the group holds a Video member of the resolution of the descriptor
HasVideoOfResolution(mi, g) ==
    \E j \in 1..Len(g) : is_video(g[j]) /\ g[j].resolution = mi.resolution

\* C16, as amended: a Video descriptor never joins a group that holds a member,
\* Video or Image, of its resolution, and it joins a group whenever some
\* group within 0.7 s holds no member of its resolution; Audio members never
\* keep a Video out.
C16_VideoGate ==
    [][(Placing /\ is_video(NextMi)) =>
          /\ \A g \in 1..Len(groups) :
                 HasResolutionOf(NextMi, groups[g]) => groups'[g] = groups[g]
          /\ (\E g \in 1..Len(groups) :
                  /\ ~HasResolutionOf(NextMi, groups[g])
                  /\ AnchorDelta(NextMi, groups[g]) <= MaxDelta)
                 => Len(groups') = Len(groups)]_vars

\* C16, as claimed: a Video descriptor is kept out of a group exactly by a
\* Video member of its resolution, so it joins a group whenever some group
\* within 0.7 s holds no Video member of its resolution.
C16_VideoOnlyGate ==
    [][(Placing /\ is_video(NextMi)) =>
          /\ \A g \in 1..Len(groups) :
                 HasVideoOfResolution(NextMi, groups[g]) => groups'[g] = groups[g]
          /\ (\E g \in 1..Len(groups) :
                  /\ ~HasVideoOfResolution(NextMi, groups[g])
                  /\ AnchorDelta(NextMi, groups[g]) <= MaxDelta)
                 => Len(groups') = Len(groups)]_vars

\* a Video started a group of its own although an earlier group, within 0.7 s,
\* held nothing of its resolution but an Image
C16_Witness ==
    /\ pc = "grouped"
    /\ \E g, h \in 1..Len(groups) :
           /\ g < h
           /\ is_video(groups[h][1])
           /\ AnchorDelta(groups[h][1], groups[g]) <= MaxDelta
           /\ HasResolutionOf(groups[h][1], groups[g])
           /\ ~HasVideoOfResolution(groups[h][1], groups[g])

DurationsOf(c) == {c[j].duration : j \in 1..Len(c)}

\* the longest minus the shortest duration of the Audio and Video members
Spread(g) ==
    LET c == NonImages(g)
    IN  IF Len(c) = 0 THEN 0 ELSE Max(DurationsOf(c)) - Min(DurationsOf(c))

\* C19: in every group the first Audio or Video member is at least as long as
\* the last one, their difference is the longest minus the shortest duration
\* of the Audio and Video members, it is zero with fewer than two of them and
\* at most 0.7 s; the reported maximum is the greatest of these differences.
C19_Divergence ==
    /\ \A g \in 1..Len(groups) :
           LET c == NonImages(groups[g])
           IN  /\ Len(c) >= 1 =>
                      /\ c[1].duration >= c[Len(c)].duration
                      /\ c[1].duration - c[Len(c)].duration = Spread(groups[g])
               /\ Len(c) < 2 => Spread(groups[g]) = 0
               /\ Spread(groups[g]) <= MaxDelta
    /\ pc = "grouped" =>
           /\ max_divergence = Some(Max({Spread(groups[g]) : g \in 1..Len(groups)}))
           /\ Unwrap(max_divergence) <= MaxDelta

\* a divergence of 0.7 s is reported for a group whose last member is an Image
\* shorter than each of its Audio and Video members
C19_Witness ==
    /\ pc = "grouped"
    /\ max_divergence = Some(MaxDelta)
    /\ \E g \in 1..Len(groups) :
           /\ Spread(groups[g]) = MaxDelta
           /\ is_image(groups[g][Len(groups[g])])
           /\ groups[g][Len(groups[g])].duration < Min(DurationsOf(NonImages(groups[g])))

\* C20: a group whose first member is an Image holds nothing else.
C20_ImageOnly ==
    \A g \in 1..Len(groups) : is_image(groups[g][1]) => Len(groups[g]) = 1

----------------------------------------------------------------------------
(* merge() *)

\* #[derive(Ord)] on Resolution: width first, then height
resolution_cmp(a, b) ==
    IF a.width # b.width
    THEN IF a.width < b.width THEN "Less" ELSE "Greater"
    ELSE IF a.height # b.height
         THEN IF a.height < b.height THEN "Less" ELSE "Greater"
         ELSE "Equal"

\* impl PartialOrd for Resolution: by width * height
resolution_partial_cmp(a, b) ==
    LET x == a.width * a.height
        y == b.width * b.height
    IN  IF x < y THEN "Less" ELSE IF x > y THEN "Greater" ELSE "Equal"

\* Ord of Option<Resolution>: None is below every Some, two Some compare by
\* the Ord of Resolution
resolution_opt_cmp(a, b) ==
    IF a = None
    THEN IF b = None THEN "Equal" ELSE "Less"
    ELSE IF b = None THEN "Greater" ELSE resolution_cmp(Unwrap(a), Unwrap(b))

RECURSIVE MaxByKeyFrom(_, _, _)
MaxByKeyFrom(s, j, best) ==
    IF j > Len(s) THEN best
    ELSE MaxByKeyFrom(s, j + 1,
             IF resolution_opt_cmp(best.resolution, s[j].resolution) = "Greater"
             THEN best ELSE s[j])

\* Iterator::max_by_key(|mi| mi.resolution): the last of the greatest elements
max_by_key(s) == IF s = << >> THEN None ELSE Some(MaxByKeyFrom(s, 2, s[1]))

\* group.iter().filter(|mi| mi.is_audio()).next()
FirstAudio(group) ==
    LET a == SelectSeq(group, is_audio)
    IN  IF a = << >> THEN None ELSE Some(a[1])

\* group.iter().filter(|mi| mi.is_video()).max_by_key(|mi| mi.resolution)
BestVideo(group) == max_by_key(SelectSeq(group, is_video))

\* what merge() does with a group when the copy or ffmpeg succeeds: the
\* files it reads, the operation and the kind it returns
merge(group) ==
    LET audio == FirstAudio(group)
        video == BestVideo(group)
    IN  IF IsSome(audio) /\ IsSome(video)
        THEN [op |-> "mux", inputs |-> <<Unwrap(audio), Unwrap(video)>>,
              kind |-> "audio+video"]
        ELSE [op |-> "copy", inputs |-> <<group[1]>>,
              kind |-> IF IsSome(audio) THEN "audio" ELSE "video"]

----------------------------------------------------------------------------
(* main(): names and chunks *)

RECURSIVE PadLeft(_, _)
PadLeft(s, w) == IF Len(s) >= w THEN s ELSE PadLeft(<<"0">> \o s, w)

\* the fill width of {n:0>3}
PadWidth == 3

\* format!("{n:0>3}")
Pad3(n) == PadLeft(Decimal(n), PadWidth)

\* a mutant: the position of the first underscore
FirstUnderscore(name) ==
    LET us == {j \in 1..Len(name) : name[j] = "_"}
    IN  IF Cardinality(us) >= 1
        THEN Some(CHOOSE j \in us : Cardinality({i \in us : i < j}) = 0)
        ELSE None

\* name0.match_indices('_').nth(1).map(|(i, _)| i), as a position from 1
SecondUnderscore(name) ==
    LET us == {j \in 1..Len(name) : name[j] = "_"}
    IN  IF Cardinality(us) >= 2
        THEN Some(CHOOSE j \in us : Cardinality({i \in us : i < j}) = 1)
        ELSE None

\* Uuid::now_v7().to_string(), the k-th identifier handed out
UuidString(k) == <<"u">> \o Decimal(k)

\* the stub of a group: the prefix of name0 before its second underscore, or
\* a new uuid
Stub(name0, k) ==
    LET idx == SecondUnderscore(name0)
    IN  IF IsSome(idx) THEN SubSeq(name0, 1, Unwrap(idx) - 1) ELSE UuidString(k)

\* format!("{stub}_{n:0>3}.mp4") and format!("{stub}_{n:0>3}.jpg")
OutName(stub, n, ext) == stub \o <<"_">> \o Pad3(n) \o <<ext>>

\* the play overlay of a thumbnail() call: temp_dir() joined with the k-th
\* identifier handed out, with the extension png
TmpPath(k) == <<"tmp", "/">> \o UuidString(k) \o <<".png">>

\* a mutant: the overlay is removed at the end of a call that succeeded
RemovedAtEnd(files, play_overlay, outcome) ==
    IF outcome = "ok" THEN files \ {play_overlay} ELSE files

\* defer! { remove_file(&play_overlay) }: the block runs when thumbnail()
\* returns, whatever it returns
Deferred(files, play_overlay, outcome) == files \ {play_overlay}

\* out_dir.join(name)
OutPath(name) == out_dir \o <<"/">> \o name

\* a mutant: the division rounds down
div_floor(a, b) == a \div b

div_ceil(a, b) == (a + b - 1) \div b

\* a mutant: the index within the chunk
IndexInChunk(chunk_idx, cs, i) == i

\* let n = chunk_idx * chunk_size + in_chunk_idx
GroupIndex(chunk_idx, cs, i) == chunk_idx * cs + i

\* groups.chunks(chunk_size): chunk_idx + 1 |-> the chunk
Chunks(gs, cs) ==
    [k \in 1..div_ceil(Len(gs), cs) |->
        SubSeq(gs, (k - 1) * cs + 1, IF k * cs < Len(gs) THEN k * cs ELSE Len(gs))]

RECURSIVE FlattenFrom(_, _)
FlattenFrom(ls, k) == IF k > Len(ls) THEN << >> ELSE ls[k] \o FlattenFrom(ls, k + 1)

\* a mutant: the lists of the workers are put together last worker first
FlatMapReversed(ls) ==
    FlattenFrom([k \in 1..Len(ls) |-> ls[Len(ls) + 1 - k]], 1)

\* handles.into_iter().flat_map(|handle| handle.join().unwrap()).collect()
FlatMap(ls) == FlattenFrom(ls, 1)

Sources(group) == [j \in 1..Len(group) |-> SrcPath(group[j])]

\* a mutant: the single image is reported as a video
ImageAttachmentAsVideo(group) ==
    [name |-> group[1].name, path |-> SrcPath(group[1]), kind |-> "video",
     thumbnail |-> SrcPath(group[1]), duration |-> 0, sources |-> Sources(group)]

\* the Attachment of a group that is a single image
ImageAttachment(group) ==
    [name |-> group[1].name, path |-> SrcPath(group[1]), kind |-> "image",
     thumbnail |-> SrcPath(group[1]), duration |-> 0, sources |-> Sources(group)]

\* the Attachment of an assembled group
MergedAttachment(group, mp4name, jpgname, kind) ==
    [name |-> mp4name, path |-> OutPath(mp4name), kind |-> kind,
     thumbnail |-> OutPath(jpgname), duration |-> group[1].duration,
     sources |-> Sources(group)]

----------------------------------------------------------------------------
(* main(): the actions *)

Workers == 1..Len(chunks)

\* a worker's loop over its chunk has ended
\* a mutant: a worker counts as finished whatever is left of its chunk
FinishedAtOnce(w) == TRUE

Finished(w) == in_chunk_idx[w] = Len(chunks[w])

\* main.rs 67-82: the groups are split into chunks, one worker per chunk
Spawn ==
    /\ pc = "grouped"
    /\ \E n \in 1..MaxCpus :
           LET cs == div_ceil(Len(groups), n)
           IN  /\ num_cpus' = n
               /\ chunk_size' = cs
               /\ IF cs = 0
                  THEN /\ pc' = "panicked"
                       /\ UNCHANGED <<chunks, in_chunk_idx, panicked, local_results, job>>
                  ELSE /\ pc' = "workers"
                       /\ chunks' = Chunks(groups, cs)
                       /\ in_chunk_idx' = [w \in 1..div_ceil(Len(groups), cs) |-> 0]
                       /\ panicked' = [w \in 1..div_ceil(Len(groups), cs) |-> FALSE]
                       /\ local_results' = [w \in 1..div_ceil(Len(groups), cs) |-> << >>]
                       /\ job' = [w \in 1..div_ceil(Len(groups), cs) |-> None]
    /\ UNCHANGED <<uuids, merged, out_files, tmp_files, results, stdout>>
    /\ UNCHANGED ginfo
    /\ UNCHANGED avars

\* main.rs 88-101: the group is a single image
WorkImage(w) ==
    /\ pc = "workers" /\ UNCHANGED pc
    /\ ~panicked[w] /\ ~Finished(w)
    /\ LET group == chunks[w][in_chunk_idx[w] + 1]
       IN  /\ Len(group) = 1 /\ is_image(group[1])
           /\ local_results' =
                  [local_results EXCEPT ![w] = Append(@, ImageAttachment(group))]
    /\ in_chunk_idx' = [in_chunk_idx EXCEPT ![w] = @ + 1]
    /\ UNCHANGED <<num_cpus, chunk_size, chunks, panicked, uuids, merged,
                   out_files, job, tmp_files, results, stdout>>
    /\ UNCHANGED ginfo
    /\ UNCHANGED avars

\* main.rs 80-117, lib.rs 216-237: one iteration of the worker's loop for a
\* group that is assembled, up to the point where thumbnail() has written its
\* play overlay. merge() succeeds or fails, as the copy and ffmpeg do; in
\* thumbnail() the probe of the assembled file or the write of a file may
\* fail; a failure panics the worker in the unwrap(). An assembled file that
\* is a copy of an Audio input has one stream or more: with one, thumbnail()
\* writes the placeholder and returns.
WorkMerge(w) ==
    /\ pc = "workers" /\ UNCHANGED pc
    /\ ~panicked[w] /\ ~Finished(w)
    /\ job[w] = None
    /\ LET group == chunks[w][in_chunk_idx[w] + 1]
           n == GroupIndex(w - 1, chunk_size, in_chunk_idx[w])
           fresh == ~IsSome(SecondUnderscore(group[1].name))
           stub == Stub(group[1].name, uuids + 1)
           mp4name == OutName(stub, n, ".mp4")
           jpgname == OutName(stub, n, ".jpg")
           m == merge(group)
           by == group[1].id
           named == IF fresh THEN uuids + 1 ELSE uuids
           play_overlay == TmpPath(named + 1)
           mp4 == [path |-> OutPath(mp4name), by |-> by]
           jpg == [path |-> OutPath(jpgname), by |-> by]
       IN  /\ ~(Len(group) = 1 /\ is_image(group[1]))
           /\ \E outcome \in {"merge failed", "thumbnail failed", "placeholder",
                              "overlay failed", "overlay"} :
                  /\ outcome = "placeholder" => (m.op = "copy" /\ is_audio(group[1]))
                  /\ uuids' = IF outcome \in {"overlay failed", "overlay"}
                              THEN named + 1 ELSE named
                  /\ merged' = IF outcome = "merge failed" THEN merged
                               ELSE merged \cup {[by |-> by, op |-> m.op,
                                                  inputs |-> m.inputs, kind |-> m.kind]}
                  /\ out_files' =
                         CASE outcome = "merge failed" -> out_files
                           [] outcome = "placeholder" -> out_files \cup {mp4, jpg}
                           [] OTHER -> out_files \cup {mp4}
                  /\ tmp_files' = IF outcome = "overlay"
                                  THEN tmp_files \cup {play_overlay} ELSE tmp_files
                  /\ job' = IF outcome = "overlay"
                            THEN [job EXCEPT ![w] =
                                     Some([mp4name |-> mp4name, jpgname |-> jpgname,
                                           kind |-> m.kind,
                                           play_overlay |-> play_overlay])]
                            ELSE job
                  /\ CASE outcome = "placeholder" ->
                              /\ local_results' =
                                     [local_results EXCEPT ![w] =
                                         Append(@, MergedAttachment(group, mp4name,
                                                                    jpgname, m.kind))]
                              /\ in_chunk_idx' = [in_chunk_idx EXCEPT ![w] = @ + 1]
                              /\ UNCHANGED panicked
                       [] outcome = "overlay" ->
                              UNCHANGED <<local_results, in_chunk_idx, panicked>>
                       [] OTHER ->
                              /\ panicked' = [panicked EXCEPT ![w] = TRUE]
                              /\ UNCHANGED <<local_results, in_chunk_idx>>
    /\ UNCHANGED <<num_cpus, chunk_size, chunks, results, stdout>>
    /\ UNCHANGED ginfo
    /\ UNCHANGED avars

\* lib.rs 239-312, main.rs 119-132: the rest of thumbnail(), with its play
\* overlay written: ffmpeg takes the screenshot or fails, the deferred block
\* removes the overlay as the call returns, and the Attachment is pushed or the
\* worker panics in the unwrap().
WorkThumbnail(w) ==
    /\ pc = "workers" /\ UNCHANGED pc
    /\ ~panicked[w]
    /\ job[w] # None
    /\ LET group == chunks[w][in_chunk_idx[w] + 1]
           j == Unwrap(job[w])
       IN  \E outcome \in {"ok", "thumbnail failed"} :
               /\ tmp_files' = Deferred(tmp_files, j.play_overlay, outcome)
               /\ job' = [job EXCEPT ![w] = None]
               /\ IF outcome = "ok"
                  THEN /\ out_files' = out_files \cup
                              {[path |-> OutPath(j.jpgname), by |-> group[1].id]}
                       /\ local_results' =
                              [local_results EXCEPT ![w] =
                                  Append(@, MergedAttachment(group, j.mp4name,
                                                             j.jpgname, j.kind))]
                       /\ in_chunk_idx' = [in_chunk_idx EXCEPT ![w] = @ + 1]
                       /\ UNCHANGED panicked
                  ELSE /\ panicked' = [panicked EXCEPT ![w] = TRUE]
                       /\ UNCHANGED <<out_files, local_results, in_chunk_idx>>
    /\ UNCHANGED <<num_cpus, chunk_size, chunks, uuids, merged, results, stdout>>
    /\ UNCHANGED ginfo
    /\ UNCHANGED avars

\* a mutant: the result of a worker that panicked is taken for an empty list
JoinNeverPanics(ps) == FALSE

\* handle.join().unwrap(): join() is an Err for a worker that panicked
JoinPanics(ps) == \E w \in DOMAIN ps : ps[w]

\* main.rs 137-141: every worker is joined and the lists are put together; a
\* worker that panicked makes join().unwrap() panic in main
Join ==
    /\ pc = "workers"
    /\ \A w \in Workers : panicked[w] \/ Finished(w)
    /\ IF JoinPanics(panicked)
       THEN /\ pc' = "panicked"
            /\ UNCHANGED results
       ELSE /\ pc' = "joined"
            /\ results' = FlatMap(local_results)
    /\ UNCHANGED <<num_cpus, chunk_size, chunks, in_chunk_idx, panicked,
                   local_results, uuids, merged, out_files, job, tmp_files, stdout>>
    /\ UNCHANGED ginfo
    /\ UNCHANGED avars

\* main.rs 143-149: the list is printed as JSON
PrintResults ==
    /\ pc = "joined"
    /\ stdout' = Some(results)
    /\ pc' = "done"
    /\ UNCHANGED <<num_cpus, chunk_size, chunks, in_chunk_idx, panicked,
                   local_results, uuids, merged, out_files, job, tmp_files, results>>
    /\ UNCHANGED ginfo
    /\ UNCHANGED avars

MainNext ==
    \/ Identify
    \/ Place
    \/ Report
    \/ Spawn
    \/ \E w \in Workers : WorkImage(w)
    \/ \E w \in Workers : WorkMerge(w)
    \/ \E w \in Workers : WorkThumbnail(w)
    \/ Join
    \/ PrintResults

SpecMain == MainInit /\ [][MainNext]_vars

\* the file names of the naming specification: with two underscores, with one
\* and with none
StubNames == FileNames \cup {<<"a", "_", "b">>}

\* the files of the naming specification: videos of one resolution under
\* each of the names, and an image
NameShapes ==
    {s \in Shapes(MainDurations, StubNames) :
        /\ s.resolution = Some(Res(720, 400))
        /\ s.media = "Image" => s.name = PlainName}

NamesInit ==
    /\ Inputs(NameShapes)
    /\ GroupStart
    /\ WorkersIdle

SpecNames == NamesInit /\ [][MainNext]_vars

\* the exit status of the process, << >> while it runs: main returns after the
\* list is printed, and a panic of the main thread ends the process with 101
ExitStatus ==
    CASE pc = "done" -> Some(0)
      [] pc = "exit 0" -> Some(0)
      [] pc = "exit 1" -> Some(1)
      [] pc = "panicked" -> Some(101)
      [] OTHER -> None

----------------------------------------------------------------------------
(* main(): the command line *)

\* most arguments on the command line
MaxArgs == 3

OutDirFlags == {<<"-", "o">>, <<"-", "-", "o", "u", "t", "d", "i", "r">>,
                <<"-", "-", "o", "u", "t", "-", "d", "i", "r">>}

HelpFlags == {<<"-", "h">>, <<"-", "-", "h", "e", "l", "p">>}

\* the paths there are when the program starts: a directory and a file
ExistingPaths == {<<"o", "u", "t">>, <<"v", "_", "1", "_", "a">>}

\* path.exists()
Exists(path) == path \in ExistingPaths

\* the arguments of the command line: an output flag, a help flag, an unknown
\* flag, the paths there are, and two paths there are not, one of them
\* shorter than four bytes
ArgTexts ==
    {<<"-", "o">>, <<"-", "h">>, <<"-", "x">>}
    \cup ExistingPaths
    \cup {<<"g", "o", "n", "e", "1">>, <<"n", "o">>}

\* opt.starts_with("-")
starts_with_dash(arg) == Len(arg) >= 1 /\ arg[1] = "-"

\* arg.as_bytes().last_chunk::<4>() is Some: the argument has four bytes or more
LastChunk4(arg) == Len(arg) >= 4

\* what identify() returns for a path of the command line that exists
ArgShapes(path) ==
    {s \in Shapes(MainDurations, {path}) :
        s.media # "Video" /\ (s.media = "Image" => s.resolution = Some(Res(720, 400)))}

ArgsInit ==
    /\ pc = "args"
    /\ \E n \in 0..MaxArgs : args \in [1..n -> ArgTexts]
    /\ arg_idx = 0
    /\ out_dir = <<".">>
    /\ paths = << >>
    /\ media_info = << >>
    /\ next_mi = 1
    /\ groups = << >>
    /\ max_divergence = None
    /\ WorkersIdle

\* main.rs 30-57: one iteration of `while let Some(arg) = args.next()`
ParseArg ==
    /\ pc = "args"
    /\ arg_idx < Len(args)
    /\ LET arg == args[arg_idx + 1]
       IN  CASE arg \in OutDirFlags ->
                    IF arg_idx + 2 > Len(args)
                    THEN /\ pc' = "exit 1"
                         /\ arg_idx' = arg_idx + 1
                         /\ UNCHANGED <<out_dir, paths>>
                    ELSE /\ arg_idx' = arg_idx + 2
                         /\ IF ~Exists(args[arg_idx + 2])
                            THEN /\ pc' = "exit 1"
                                 /\ UNCHANGED <<out_dir, paths>>
                            ELSE /\ out_dir' = args[arg_idx + 2]
                                 /\ UNCHANGED <<pc, paths>>
             [] arg \in HelpFlags ->
                    /\ pc' = "exit 0"
                    /\ arg_idx' = arg_idx + 1
                    /\ UNCHANGED <<out_dir, paths>>
             [] arg \notin OutDirFlags \cup HelpFlags /\ starts_with_dash(arg) ->
                    /\ pc' = "exit 1"
                    /\ arg_idx' = arg_idx + 1
                    /\ UNCHANGED <<out_dir, paths>>
             [] OTHER ->
                    /\ arg_idx' = arg_idx + 1
                    /\ UNCHANGED out_dir
                    /\ IF LastChunk4(arg)
                       THEN IF ~Exists(arg)
                            THEN /\ pc' = "exit 1"
                                 /\ UNCHANGED paths
                            ELSE /\ \E s \in ArgShapes(arg) :
                                        paths' = Append(paths, MkInfo(Len(paths) + 1, s))
                                 /\ UNCHANGED pc
                       ELSE UNCHANGED <<pc, paths>>
    /\ UNCHANGED <<args, media_info, next_mi, groups, max_divergence>>
    /\ UNCHANGED wvars

\* main.rs 59-62: the arguments are read; without a path the usage is printed
\* and the run ends
EndArgs ==
    /\ pc = "args"
    /\ arg_idx = Len(args)
    /\ pc' = IF paths = << >> THEN "exit 1" ELSE "identify"
    /\ UNCHANGED ginfo
    /\ UNCHANGED wvars
    /\ UNCHANGED avars

ArgsNext ==
    \/ ParseArg
    \/ EndArgs
    \/ MainNext

SpecArgs == ArgsInit /\ [][ArgsNext]_vars

----------------------------------------------------------------------------
(* The assembly: the claims *)

\* the position, from 0, of the group whose first member is the descriptor of
\* path id
PositionOf(id) == (CHOOSE g \in 1..Len(groups) : groups[g][1].id = id) - 1

GroupOf(id) == groups[PositionOf(id) + 1]

\* C4: when every worker has finished without a failure, the result list has
\* one Attachment per group and the i-th Attachment is built from the i-th
\* group, whatever the order in which the workers ran; it is that list that is
\* printed.
C4_ResultOrder ==
    /\ pc \in {"joined", "done"} =>
           /\ Len(results) = Len(groups)
           /\ \A i \in 1..Len(groups) :
                  /\ results[i].sources = Sources(groups[i])
                  /\ results[i].duration =
                         IF results[i].kind = "image" THEN 0 ELSE groups[i][1].duration
    /\ pc = "done" => stdout = Some(results)

\* the list was printed for three groups or more handled by several workers,
\* and a later group took its uuid before an earlier group did
C4_Witness ==
    /\ pc = "done"
    /\ Len(groups) >= 3
    /\ Len(chunks) >= 2
    /\ \E i, j \in 1..Len(results) :
           /\ i < j
           /\ Len(results[i].name) >= 2 /\ Len(results[j].name) >= 2
           /\ SubSeq(results[i].name, 1, 2) = UuidString(2)
           /\ SubSeq(results[j].name, 1, 2) = UuidString(1)

\* the greatest by pixel area of the Video members of a group
IsLargestVideo(v, group) ==
    /\ is_video(v)
    /\ \E j \in 1..Len(group) : group[j] = v
    /\ \A j \in 1..Len(group) :
           is_video(group[j]) =>
               resolution_partial_cmp(Unwrap(group[j].resolution),
                                      Unwrap(v.resolution)) # "Greater"

\* C8: a group with an Audio member and a Video member is muxed from its first
\* Audio member and the Video member of greatest pixel area.
C8_LargestArea ==
    \A m \in merged :
        LET group == GroupOf(m.by)
        IN  (\E j, k \in 1..Len(group) : is_audio(group[j]) /\ is_video(group[k])) =>
                /\ m.op = "mux"
                /\ FirstAudio(group) = Some(m.inputs[1])
                /\ IsLargestVideo(m.inputs[2], group)

\* C9: a group without an Audio member or without a Video member is not
\* muxed; the file copied is an Audio or Video member of the group and the
\* kind returned is the kind of that member; "audio+video" is returned only
\* for a mux of an Audio and a Video member.
C9_CopiedKind ==
    \A m \in merged :
        LET group == GroupOf(m.by)
        IN  /\ ~(\E j, k \in 1..Len(group) : is_audio(group[j]) /\ is_video(group[k])) =>
                   /\ m.op = "copy"
                   /\ \E j \in 1..Len(group) : group[j] = m.inputs[1]
                   /\ ~is_image(m.inputs[1])
                   /\ m.kind = "audio" <=> is_audio(m.inputs[1])
                   /\ m.kind = "video" <=> is_video(m.inputs[1])
            /\ m.kind = "audio+video" =>
                   /\ m.op = "mux"
                   /\ is_audio(m.inputs[1])
                   /\ is_video(m.inputs[2])

\* the last n elements of a sequence
Suffix(s, n) == SubSeq(s, Len(s) - n + 1, Len(s))

\* the path ends with the index and one of the two extensions
EndsWithIndex(path, p) ==
    \E ext \in {".mp4", ".jpg"} :
        LET tail == <<"_">> \o Pad3(p) \o <<ext>>
        IN  Len(path) > Len(tail) /\ Suffix(path, Len(tail)) = tail

\* C10: the index in the name of every file written for a group is the
\* position of the group in the list of groups, and no two groups write a file
\* of the same path.
C10_UniqueNames ==
    /\ \A f \in out_files : EndsWithIndex(f.path, PositionOf(f.by))
    /\ \A f1, f2 \in out_files : f1.path = f2.path => f1.by = f2.by

\* two workers wrote files for groups of the same stub, one of them for a group
\* that is not the first of the list, in a chunk that is not the first
C10_Witness ==
    /\ pc = "done"
    /\ Len(chunks) >= 2
    /\ chunk_size >= 2
    /\ \E f1, f2 \in out_files :
           /\ PositionOf(f1.by) < chunk_size
           /\ PositionOf(f2.by) >= chunk_size
           /\ SecondUnderscore(GroupOf(f1.by)[1].name) # None
           /\ GroupOf(f1.by)[1].name = GroupOf(f2.by)[1].name

\* the group is a single image, which main hands through
SingleImage(group) == Len(group) = 1 /\ is_image(group[1])

\* the group was assembled: merge() ran for it and both of its files are there
Assembled(group) ==
    /\ \E m \in merged : m.by = group[1].id
    /\ Cardinality({f \in out_files : f.by = group[1].id}) = 2

\* C11: once a probe, a merge or a thumbnail has failed nothing is printed on
\* standard output, the run never gets past the join, and it ends with a
\* non-zero exit status; the list is printed only by a run in which every
\* worker finished its chunk and every group that needs it was assembled.
C11_AllOrNothing ==
    /\ (pc = "panicked" \/ \E w \in Workers : panicked[w]) =>
           /\ stdout = None
           /\ pc \in {"workers", "panicked"}
    /\ pc = "panicked" => (ExitStatus # None /\ Unwrap(ExitStatus) # 0)
    /\ stdout # None =>
           /\ pc = "done"
           /\ ExitStatus = Some(0)
           /\ stdout = Some(results)
           /\ Len(results) = Len(groups)
           /\ \A w \in Workers : ~panicked[w] /\ Finished(w)
           /\ \A g \in 1..Len(groups) :
                  SingleImage(groups[g]) \/ Assembled(groups[g])

\* the run has ended in a panic after one worker failed and another had
\* assembled the groups of its chunk
C11_Witness ==
    /\ pc = "panicked"
    /\ stdout = None
    /\ \E v, w \in Workers :
           /\ panicked[v]
           /\ ~panicked[w] /\ Finished(w)
           /\ \E i \in 1..Len(chunks[w]) : Assembled(chunks[w][i])

\* the list on standard output, empty while nothing is printed
Printed == IF stdout = None THEN << >> ELSE Unwrap(stdout)

\* C12, as amended: every record of the printed list has one of the kinds
\* audio, video, audio+video and image, and its kind is image exactly when its
\* group is a single Image.
C12_Kinds ==
    /\ Len(Printed) \in {0, Len(groups)}
    /\ \A i \in 1..Len(Printed) :
           /\ Printed[i].kind \in {"audio", "video", "audio+video", "image"}
           /\ Printed[i].kind = "image" <=> SingleImage(groups[i])

\* C12, as claimed: every record of the printed list, that of a single Image
\* included, has one of the kinds audio, video and audio+video.
C12_KindOfThree ==
    \A i \in 1..Len(Printed) :
        Printed[i].kind \in {"audio", "video", "audio+video"}

\* a list is printed that holds the record of a single Image beside that of a
\* muxed group
C12_Witness ==
    \E i, j \in 1..Len(Printed) :
        /\ SingleImage(groups[i])
        /\ Printed[i].kind = "image"
        /\ Printed[j].kind = "audio+video"

Underscores(name) == {j \in 1..Len(name) : name[j] = "_"}

\* the stub of the name of an assembled file: what stands before _NNN.ext
StubOf(name) == SubSeq(name, 1, Len(name) - 5)

\* the records the workers have pushed, each with its worker and position
Pushed == {<<w, i>> \in Workers \X (1..MaxLen) : i <= Len(local_results[w])}

\* C13: for every group that is not a single image, the .mp4 and the .jpg are
\* named by one stub and one index; with two or more underscores in the file
\* name of the first member the stub is what stands before the second of them,
\* with fewer it is an identifier handed out for this group alone.
C13_Stub ==
    \A p \in Pushed :
        LET a == local_results[p[1]][p[2]]
            group == chunks[p[1]][p[2]]
            name0 == group[1].name
            stub == StubOf(a.name)
        IN  ~SingleImage(group) =>
                /\ a.path = OutPath(a.name)
                /\ a.name[Len(a.name)] = ".mp4"
                /\ a.thumbnail[Len(a.thumbnail)] = ".jpg"
                /\ SubSeq(a.thumbnail, 1, Len(a.thumbnail) - 1)
                       = SubSeq(a.path, 1, Len(a.path) - 1)
                /\ IF Cardinality(Underscores(name0)) >= 2
                   THEN /\ stub = SubSeq(name0, 1, Len(stub))
                        /\ Cardinality(Underscores(stub)) = 1
                        /\ name0[Len(stub) + 1] = "_"
                   ELSE \E k \in 1..uuids :
                            /\ stub = UuidString(k)
                            /\ TmpPath(k) \notin tmp_files
                            /\ \A q \in Pushed \ {p} :
                                   StubOf(local_results[q[1]][q[2]].name) # stub

\* the list is printed for three assembled groups whose first members have no,
\* one and two underscores in their names
C13_Witness ==
    /\ pc = "done"
    /\ \E g0, g1, g2 \in 1..Len(groups) :
           /\ ~SingleImage(groups[g0]) /\ ~SingleImage(groups[g1])
           /\ ~SingleImage(groups[g2])
           /\ Cardinality(Underscores(groups[g0][1].name)) = 0
           /\ Cardinality(Underscores(groups[g1][1].name)) = 1
           /\ Cardinality(Underscores(groups[g2][1].name)) = 2

\* C17: once the workers are spawned there is at least one group and the chunk
\* size is at least 1; the chunks are at most num_cpus, none is empty, and
\* chunk w holds the groups (w - 1) * chunk_size + 1 .. in their order, every
\* group in exactly one chunk; worker w has pushed one record for each of the
\* first in_chunk_idx[w] groups of its chunk and none for any other group, and
\* at the join every worker has gone through its whole chunk.
C17_Chunking ==
    num_cpus > 0 =>
        /\ Len(groups) >= 1
        /\ chunk_size >= 1
        /\ Len(chunks) \in 1..num_cpus
        /\ \A w \in Workers :
               /\ Len(chunks[w]) \in 1..chunk_size
               /\ \A i \in 1..Len(chunks[w]) :
                      /\ (w - 1) * chunk_size + i <= Len(groups)
                      /\ chunks[w][i] = groups[(w - 1) * chunk_size + i]
               /\ in_chunk_idx[w] <= Len(chunks[w])
               /\ Len(local_results[w]) = in_chunk_idx[w]
               /\ \A i \in 1..Len(local_results[w]) :
                      local_results[w][i].sources = Sources(chunks[w][i])
        /\ \A g \in 1..Len(groups) :
               Cardinality({<<w, i>> \in Workers \X (1..MaxLen) :
                               /\ i <= Len(chunks[w])
                               /\ (w - 1) * chunk_size + i = g}) = 1
        /\ pc \in {"joined", "done"} => \A w \in Workers : Finished(w)

\* three groups went to two workers, two to the first and one to the second,
\* and the list is printed
C17_Witness ==
    /\ pc = "done"
    /\ num_cpus = 2
    /\ Len(groups) = 3
    /\ Len(chunks) = 2
    /\ Len(chunks[1]) = 2
    /\ Len(chunks[2]) = 1

\* the workers that are inside a thumbnail() call that has written its overlay
InThumbnail == {w \in Workers : job[w] # None}

RECURSIVE FatalFrom(_)
FatalFrom(i) ==
    IF i > arg_idx THEN FALSE
    ELSE LET arg == args[i]
         IN  CASE arg \in OutDirFlags ->
                      \/ i + 1 <= arg_idx /\ ~Exists(args[i + 1])
                      \/ FatalFrom(i + 2)
               [] arg \in HelpFlags -> FALSE
               [] arg \notin OutDirFlags \cup HelpFlags /\ starts_with_dash(arg) -> TRUE
               [] OTHER -> ~Exists(arg) \/ FatalFrom(i + 1)

\* C14: once the loop has read an unknown flag, an output directory that does
\* not exist or a positional path that does not exist, of whatever length, no
\* file is probed and no worker started, and the run ends with exit status 1.
C14_FatalArguments ==
    FatalFrom(1) =>
        /\ pc \in {"args", "exit 1"}
        /\ pc = "exit 1" => ExitStatus = Some(1)
        /\ media_info = << >>
        /\ chunks = << >>

\* the group of the chunk of worker w at position i has been started: merge()
\* ran for it, a file of it was written or its record was pushed
Started(w, i) ==
    \/ i <= in_chunk_idx[w]
    \/ \E m \in merged : m.by = chunks[w][i][1].id
    \/ \E f \in out_files : f.by = chunks[w][i][1].id

\* C21: a worker that failed on a group has started none of the groups that
\* follow it in its chunk; a worker that has neither failed nor gone through
\* its chunk can take its next step whatever has happened to the other
\* workers; and the run gets past the workers only when every worker has gone
\* through its whole chunk or has failed itself.
C21_NoCancellation ==
    /\ \A w \in Workers :
           panicked[w] =>
               /\ in_chunk_idx[w] < Len(chunks[w])
               /\ job[w] = None
               /\ \A i \in (in_chunk_idx[w] + 2)..Len(chunks[w]) : ~Started(w, i)
    /\ pc = "workers" =>
           \A w \in Workers :
               (~panicked[w] /\ in_chunk_idx[w] < Len(chunks[w])) =>
                   ENABLED (WorkImage(w) \/ WorkMerge(w) \/ WorkThumbnail(w))
    /\ (pc \in {"panicked", "joined", "done"}) =>
           \A w \in Workers :
               panicked[w] \/ in_chunk_idx[w] = Len(chunks[w])

\* the run has ended in a panic: the first worker failed in merge() on the
\* first of the two groups of its chunk and never started the second, and the
\* second worker, which took its identifier after that failure, has assembled
\* its group
C21_Witness ==
    /\ pc = "panicked"
    /\ Len(chunks) = 2
    /\ panicked[1]
    /\ in_chunk_idx[1] = 0
    /\ Len(chunks[1]) = 2
    /\ ~Started(1, 1) /\ ~Started(1, 2)
    /\ ~panicked[2]
    /\ in_chunk_idx[2] = Len(chunks[2])
    /\ \E i \in 1..Len(local_results[2]) :
           /\ Assembled(chunks[2][i])
           /\ StubOf(local_results[2][i].name) = UuidString(2)

====
